---- MODULE Spec2Model ----
(***************************************************************************)
(* raft-sqlite: SqliteStore, a raft.LogStore and raft.StableStore kept in  *)
(* two sqlite tables,                                                      *)
(*     logs (idx INTEGER PRIMARY KEY, data BLOB)                           *)
(*     kv   (key TEXT PRIMARY KEY, value BLOB)                             *)
(* Every public method runs its statements through SqliteStore.transaction *)
(* (begin, body, commit on nil, rollback otherwise).                       *)
(*                                                                         *)
(* A Go error is modelled as the set of the errors it wraps: nil is {},    *)
(* errors.Join is union and errors.Is(err, target) is inclusion.           *)
(***************************************************************************)
EXTENDS Integers, Sequences, FiniteSets, TLC

\* ---------------------------------------------------------------- bounds
\* log indices range over 0..MaxIndex
MaxIndex == 2
\* StoreLogs is called with batches of 0..MaxBatch entries
MaxBatch == 2

Indices == 0..MaxIndex

\* raft.Log.Data of the entries handed to the store; BadData stands for an
\* entry the encoder rejects
Payloads == {"log1", "log2"}
BadData == "unencodable"

\* a *raft.Log as far as the store reads it: Index, and the rest as Data
Logs == [Index : Indices, Data : Payloads \cup {BadData}]

Keys == {"key1", "key2"}
\* []byte values handed to Set (eight bytes wide, as GetUint64 reads them)
RawValues == {<<0, 0, 0, 0, 0, 0, 2, 0>>}
\* uint64 values handed to SetUint64
Uints == {0, 123}

\* ---------------------------------------------------------------- errors
Nil == {}
ErrNoRows == {"sql: no rows in result set"}
ErrLogNotFound == {"log not found"}
ErrKeyNotFound == {"not found"}
ErrUnique == {"UNIQUE constraint failed"}
ErrEncode == {"msgpack encode error"}
ErrBegin == {"begin failed"}
ErrCommit == {"commit failed"}
ErrRollback == {"rollback error"}

Join(e1, e2) == e1 \cup e2
Is(err, target) == target \subseteq err
\* fmt.Errorf("rollback failed: %w", txerr)
WrapRollback(txerr) == {"rollback failed"} \cup txerr

\* what the storage engine answers to Begin, Commit and Rollback of one
\* transaction (TRUE: the call succeeds)
Engine == [begin : BOOLEAN, commit : BOOLEAN, rollback : BOOLEAN]
\* the store is open and the storage accepts begin and commit; a rollback
\* may still fail
EngineUp == {e \in Engine : e.begin /\ e.commit}
Healthy == [begin |-> TRUE, commit |-> TRUE, rollback |-> TRUE]

\* ---------------------------------------------------------------- tables
EmptyTable == [i \in {} |-> 0]
NoBytes == <<>>
NoLog == [Index |-> 0, Data |-> ""]

VARIABLES
  logs,     \* table logs: idx -> data
  kv,       \* table kv: key -> value
  last,     \* the last call: its name, arguments and what it returned
  prev,     \* the tables as they were when the last call began
  pure,     \* so far StoreLog/StoreLogs were only called with encodable
            \* entries of pairwise distinct indices, and nothing was deleted
  expect,   \* while pure: index -> the entry that was handed to the store
  lastSet,  \* key -> the most recent Set / SetUint64 on it
  handle,   \* the caller's *SqliteStore: "open", "closed" (after Close), or
            \* "none" (NewStore returned nil and an error)
  schema,   \* the initialization statements that have taken effect in the
            \* database file
  procs,    \* goroutine -> its StoreLogs call: where it is in transaction
            \* and in the loop, and what its transaction has written
  wlock,    \* the goroutine whose transaction holds the database's write
            \* lock (0: none)
  seen      \* the indices a concurrent reader found with GetLog

vars == <<logs, kv, last, prev, pure, expect, lastSet, handle, schema, procs, wlock, seen>>

DB == [logs |-> logs, kv |-> kv]

\* ------------------------------------------------- serialization boundary
\* encodeMsgPack: the entry as an opaque blob, or the encoder's error
encodeMsgPack(log) ==
  IF log.Data = BadData
    THEN [err |-> ErrEncode, bytes |-> NoBytes]
    ELSE [err |-> Nil, bytes |-> <<log.Index, log.Data>>]

\* decodeMsgPack: the entry a blob holds
decodeMsgPack(data) ==
  IF Len(data) = 2
    THEN [err |-> Nil, log |-> [Index |-> data[1], Data |-> data[2]]]
    ELSE [err |-> {"msgpack decode error"}, log |-> NoLog]

\* uint64ToBytes: fixed width, big endian
RECURSIVE BigEndian(_, _)
BigEndian(n, width) ==
  IF width = 0 THEN <<>> ELSE Append(BigEndian(n \div 256, width - 1), n % 256)

uint64ToBytes(u) == BigEndian(u, 8)

RECURSIVE BigEndianValue(_, _)
BigEndianValue(b, acc) ==
  IF b = <<>> THEN acc ELSE BigEndianValue(Tail(b), acc * 256 + Head(b))

bytesToUint64(b) == BigEndianValue(SubSeq(b, 1, 8), 0)

\* SelectFirstIdx with the order reversed (ORDER BY idx DESC)
SelectFirstIdx_Desc(tbl) ==
  IF DOMAIN tbl = {}
    THEN [err |-> ErrNoRows, idx |-> 0]
    ELSE [err |-> Nil,
          idx |-> CHOOSE i \in DOMAIN tbl : \A j \in DOMAIN tbl : i >= j]

\* ------------------------------------------------------------ statements
\* SELECT idx FROM logs ORDER BY idx ASC LIMIT 1, scanned into idx
SelectFirstIdx(tbl) ==
  IF DOMAIN tbl = {}
    THEN [err |-> ErrNoRows, idx |-> 0]
    ELSE [err |-> Nil,
          idx |-> CHOOSE i \in DOMAIN tbl : \A j \in DOMAIN tbl : i <= j]

\* SelectLastIdx with the order reversed (ORDER BY idx ASC)
SelectLastIdx_Asc(tbl) ==
  IF DOMAIN tbl = {}
    THEN [err |-> ErrNoRows, idx |-> 0]
    ELSE [err |-> Nil,
          idx |-> CHOOSE i \in DOMAIN tbl : \A j \in DOMAIN tbl : i <= j]

\* SELECT idx FROM logs ORDER BY idx DESC LIMIT 1, scanned into idx
SelectLastIdx(tbl) ==
  IF DOMAIN tbl = {}
    THEN [err |-> ErrNoRows, idx |-> 0]
    ELSE [err |-> Nil,
          idx |-> CHOOSE i \in DOMAIN tbl : \A j \in DOMAIN tbl : i >= j]

\* SELECT data FROM logs WHERE idx = ?, scanned into data
SelectData(tbl, idx) ==
  IF idx \in DOMAIN tbl
    THEN [err |-> Nil, data |-> tbl[idx]]
    ELSE [err |-> ErrNoRows, data |-> NoBytes]

\* InsertLog overwriting the row already there (INSERT OR REPLACE)
InsertLog_OrReplace(tbl, key, val) ==
  [tbl |-> [i \in DOMAIN tbl \cup {key} |-> IF i = key THEN val ELSE tbl[i]],
   err |-> Nil]

\* INSERT INTO logs (idx, data) VALUES (?, ?): idx is the primary key, a
\* second row with the same idx fails the statement and leaves the table
\* (and the transaction) as it was
InsertLog(tbl, key, val) ==
  IF key \in DOMAIN tbl
    THEN [tbl |-> tbl, err |-> ErrUnique]
    ELSE [tbl |-> [i \in DOMAIN tbl \cup {key} |->
                     IF i = key THEN val ELSE tbl[i]],
          err |-> Nil]

\* DeleteLogs with the upper bound exclusive (idx < ?)
DeleteLogs_Exclusive(tbl, min, max) ==
  [tbl |-> [i \in {j \in DOMAIN tbl : ~(j >= min /\ j < max)} |-> tbl[i]],
   err |-> Nil]

\* DELETE FROM logs WHERE idx >= ? AND idx <= ?
DeleteLogs(tbl, min, max) ==
  [tbl |-> [i \in {j \in DOMAIN tbl : ~(j >= min /\ j <= max)} |-> tbl[i]],
   err |-> Nil]

\* InsertOrReplaceKv keeping the row already there (INSERT OR IGNORE)
InsertOrIgnoreKv(tbl, k, v) ==
  [tbl |-> [x \in DOMAIN tbl \cup {k} |-> IF x \in DOMAIN tbl THEN tbl[x] ELSE v],
   err |-> Nil]

\* INSERT OR REPLACE INTO kv (key, value) VALUES (?, ?)
InsertOrReplaceKv(tbl, k, v) ==
  [tbl |-> [x \in DOMAIN tbl \cup {k} |-> IF x = k THEN v ELSE tbl[x]],
   err |-> Nil]

\* SELECT value FROM kv WHERE key = ?, scanned into value
SelectValue(tbl, k) ==
  IF k \in DOMAIN tbl
    THEN [err |-> Nil, value |-> tbl[k]]
    ELSE [err |-> ErrNoRows, value |-> NoBytes]

\* ----------------------------------------------------------- transaction
\* what became of the sql.Tx of one call: whether Begin returned it, which of
\* Commit and Rollback was called on it (either one finishes it), whether that
\* call succeeded, and the error the body had returned
TxNone == [begun |-> FALSE, end |-> "none", ok |-> TRUE, body |-> Nil]
TxEnded(end, ok, bodyErr) == [begun |-> TRUE, end |-> end, ok |-> ok, body |-> bodyErr]

\* transaction returning the closure's error without calling Rollback
transaction_NoRollback(db, body, eng) ==
  IF ~eng.begin
    THEN [db |-> db, err |-> ErrBegin, tx |-> TxNone]
    ELSE IF body.err = Nil
      THEN IF eng.commit
             THEN [db |-> body.tx, err |-> Nil, tx |-> TxEnded("commit", TRUE, Nil)]
             ELSE [db |-> db, err |-> ErrCommit, tx |-> TxEnded("commit", FALSE, Nil)]
      ELSE [db |-> db, err |-> body.err, tx |-> TxEnded("none", FALSE, body.err)]

\* transaction not reading the error of Begin
transaction_IgnoreBegin(db, body, eng) ==
  IF body.err = Nil
    THEN [db |-> body.tx, err |-> Nil, tx |-> TxEnded("commit", TRUE, Nil)]
    ELSE [db |-> db, err |-> body.err, tx |-> TxEnded("rollback", TRUE, body.err)]

\* transaction(f): body is what f did on the transaction's view of db: the
\* tables as f left them (tx) and the error f returned (err)
transaction(db, body, eng) ==
  IF ~eng.begin
    THEN [db |-> db, err |-> ErrBegin, tx |-> TxNone]
    ELSE IF body.err = Nil
      THEN IF eng.commit
             THEN [db |-> body.tx, err |-> Nil, tx |-> TxEnded("commit", TRUE, Nil)]
             ELSE [db |-> db, err |-> ErrCommit, tx |-> TxEnded("commit", FALSE, Nil)]
      ELSE IF eng.rollback
             THEN [db |-> db, err |-> body.err, tx |-> TxEnded("rollback", TRUE, body.err)]
             ELSE [db |-> db, err |-> Join(body.err, WrapRollback(ErrRollback)),
                   tx |-> TxEnded("rollback", FALSE, body.err)]

\* FirstIndexOp returning the engine's error as it is (no errors.Is mapping)
FirstIndexOp_Unmapped(db, eng) ==
  LET row == SelectFirstIdx(db.logs)
      t == transaction(db, [tx |-> db, err |-> row.err], eng)
  IN [db |-> t.db, tx |-> t.tx, idx |-> IF t.err = Nil THEN row.idx ELSE 0, err |-> t.err]

\* ------------------------------------------------------------ operations
\* FirstIndex: [db, idx, err]
FirstIndexOp(db, eng) ==
  LET row == SelectFirstIdx(db.logs)
      t == transaction(db, [tx |-> db, err |-> row.err], eng)
  IN IF t.err # Nil
       THEN IF Is(t.err, ErrNoRows)
              THEN [db |-> t.db, tx |-> t.tx, idx |-> 0, err |-> Nil]
              ELSE [db |-> t.db, tx |-> t.tx, idx |-> 0, err |-> t.err]
       ELSE [db |-> t.db, tx |-> t.tx, idx |-> row.idx, err |-> Nil]

\* LastIndexOp answering the empty log as FirstIndex does (0, nil)
LastIndexOp_Sentinel(db, eng) ==
  LET row == SelectLastIdx(db.logs)
      t == transaction(db, [tx |-> db, err |-> row.err], eng)
  IN IF t.err # Nil
       THEN IF Is(t.err, ErrNoRows)
              THEN [db |-> t.db, tx |-> t.tx, idx |-> 0, err |-> Nil]
              ELSE [db |-> t.db, tx |-> t.tx, idx |-> 0, err |-> t.err]
       ELSE [db |-> t.db, tx |-> t.tx, idx |-> row.idx, err |-> Nil]

\* LastIndex: [db, idx, err]
LastIndexOp(db, eng) ==
  LET row == SelectLastIdx(db.logs)
      t == transaction(db, [tx |-> db, err |-> row.err], eng)
  IN IF t.err # Nil
       THEN [db |-> t.db, tx |-> t.tx, idx |-> 0, err |-> t.err]
       ELSE [db |-> t.db, tx |-> t.tx, idx |-> row.idx, err |-> Nil]

\* GetLogOp returning the engine's error as it is (no errors.Is mapping)
GetLogOp_Unmapped(db, idx, eng) ==
  LET row == SelectData(db.logs, idx)
      t == transaction(db, [tx |-> db, err |-> row.err], eng)
  IN IF t.err # Nil
       THEN [db |-> t.db, tx |-> t.tx, log |-> NoLog, err |-> t.err]
       ELSE LET d == decodeMsgPack(row.data)
            IN [db |-> t.db, tx |-> t.tx, log |-> d.log, err |-> d.err]

\* GetLog: [db, log, err]
GetLogOp(db, idx, eng) ==
  LET row == SelectData(db.logs, idx)
      t == transaction(db, [tx |-> db, err |-> row.err], eng)
  IN IF t.err # Nil
       THEN IF Is(t.err, ErrNoRows)
              THEN [db |-> t.db, tx |-> t.tx, log |-> NoLog, err |-> ErrLogNotFound]
              ELSE [db |-> t.db, tx |-> t.tx, log |-> NoLog, err |-> t.err]
       ELSE LET d == decodeMsgPack(row.data)
            IN [db |-> t.db, tx |-> t.tx, log |-> d.log, err |-> d.err]

\* StoreLoop returning from inside the loop, after its first INSERT
StoreLoop_FirstOnly(tx, rest) ==
  IF rest = <<>>
    THEN [tx |-> tx, err |-> Nil]
    ELSE LET log == Head(rest)
             enc == encodeMsgPack(log)
         IN IF enc.err # Nil
              THEN [tx |-> tx, err |-> enc.err]
              ELSE [tx |-> [tx EXCEPT !.logs = InsertLog(tx.logs, log.Index, enc.bytes).tbl],
                    err |-> Nil]

\* the loop of StoreLogs over the entries not yet handled: an entry that does
\* not encode ends the body with the encoder's error; the error of the INSERT
\* is assigned and never read, and the body ends with nil
RECURSIVE StoreLoop(_, _)
StoreLoop(tx, rest) ==
  IF rest = <<>>
    THEN [tx |-> tx, err |-> Nil]
    ELSE LET log == Head(rest)
             key == log.Index
             enc == encodeMsgPack(log)
         IN IF enc.err # Nil
              THEN [tx |-> tx, err |-> enc.err]
              ELSE LET ins == InsertLog(tx.logs, key, enc.bytes)
                   IN StoreLoop([tx EXCEPT !.logs = ins.tbl], Tail(rest))

\* StoreLogs: [db, err]
StoreLogsOp(db, batch, eng) == transaction(db, StoreLoop(db, batch), eng)

\* StoreLog: [db, err]
StoreLogOp(db, log, eng) == StoreLogsOp(db, <<log>>, eng)

\* DeleteRangeOp emptying the kv table too
DeleteRangeOp_ClearsKv(db, min, max, eng) ==
  LET del == DeleteLogs(db.logs, min, max)
  IN transaction(db, [tx |-> [logs |-> del.tbl, kv |-> EmptyTable], err |-> del.err], eng)

\* DeleteRange: [db, err]
DeleteRangeOp(db, min, max, eng) ==
  LET del == DeleteLogs(db.logs, min, max)
  IN transaction(db, [tx |-> [db EXCEPT !.logs = del.tbl], err |-> del.err], eng)

\* Set: [db, err]
SetOp(db, k, v, eng) ==
  LET ins == InsertOrReplaceKv(db.kv, k, v)
  IN transaction(db, [tx |-> [db EXCEPT !.kv = ins.tbl], err |-> ins.err], eng)

\* GetOp returning the engine's error as it is (no errors.Is mapping)
GetOp_Unmapped(db, k, eng) ==
  LET row == SelectValue(db.kv, k)
      t == transaction(db, [tx |-> db, err |-> row.err], eng)
  IN IF t.err # Nil
       THEN [db |-> t.db, tx |-> t.tx, value |-> NoBytes, err |-> t.err]
       ELSE [db |-> t.db, tx |-> t.tx, value |-> row.value, err |-> Nil]

\* Get: [db, value, err]
GetOp(db, k, eng) ==
  LET row == SelectValue(db.kv, k)
      t == transaction(db, [tx |-> db, err |-> row.err], eng)
  IN IF t.err # Nil
       THEN IF Is(t.err, ErrNoRows)
              THEN [db |-> t.db, tx |-> t.tx, value |-> NoBytes, err |-> ErrKeyNotFound]
              ELSE [db |-> t.db, tx |-> t.tx, value |-> NoBytes, err |-> t.err]
       ELSE [db |-> t.db, tx |-> t.tx, value |-> row.value, err |-> Nil]

\* SetUint64: [db, err]
SetUint64Op(db, key, val, eng) == SetOp(db, key, uint64ToBytes(val), eng)

\* GetUint64: [db, n, err]
GetUint64Op(db, key, eng) ==
  LET g == GetOp(db, key, eng)
  IN IF g.err # Nil
       THEN [db |-> g.db, tx |-> g.tx, n |-> 0, err |-> g.err]
       ELSE [db |-> g.db, tx |-> g.tx, n |-> bytesToUint64(g.value), err |-> Nil]

\* ----------------------------------------------------------------- state
NoCall ==
  [op |-> "none", idx |-> 0, min |-> 0, max |-> 0, batch |-> <<>>,
   key |-> "", val |-> NoBytes, n |-> 0,
   err |-> Nil, ret |-> 0, log |-> NoLog, value |-> NoBytes, tx |-> TxNone,
   fresh |-> FALSE, failAt |-> 0, sch |-> {}]

NeverSet == [kind |-> "none", bytes |-> NoBytes, n |-> 0]

\* the statements of NewStore's initialization, in their order
InitSteps ==
  <<"PRAGMA synchronous=normal", "PRAGMA journal_mode=WAL",
    "CREATE TABLE IF NOT EXISTS logs", "CREATE TABLE IF NOT EXISTS kv">>

AllSteps == {InitSteps[i] : i \in 1..Len(InitSteps)}
ErrExec == {"exec failed"}
\* sql.DB after Close: Begin fails (sql: database is closed)
EngineClosed == {e \in Engine : ~e.begin /\ ~e.commit /\ ~e.rollback}

\* the goroutines that call StoreLogs at the same time
Writers == {1, 2}

\* a goroutine that is not in a StoreLogs call
Idle == [pc |-> "idle", batch |-> <<>>, pos |-> 1, tx |-> EmptyTable, wrote |-> FALSE, err |-> Nil]

\* NewStore on a fresh path: both tables exist and are empty
Init ==
  /\ procs = [w \in Writers |-> Idle]
  /\ wlock = 0
  /\ seen = {}
  /\ logs = EmptyTable
  /\ kv = EmptyTable
  /\ last = NoCall
  /\ prev = [logs |-> EmptyTable, kv |-> EmptyTable]
  /\ pure = TRUE
  /\ expect = EmptyTable
  /\ lastSet = [k \in Keys |-> NeverSet]
  /\ handle = "open"
  /\ schema = AllSteps

\* the call returns: the tables are as the operation left them
Returns(db, call) ==
  /\ logs' = db.logs
  /\ kv' = db.kv
  /\ last' = call
  /\ prev' = DB
  /\ UNCHANGED <<handle, schema, procs, wlock, seen>>

\* the indices of a batch are pairwise distinct, none was handed to the store
\* before, and every entry encodes
FreshBatch(batch) ==
  /\ \A i \in 1..Len(batch) : batch[i].Data # BadData
  /\ \A i \in 1..Len(batch) : batch[i].Index \notin DOMAIN expect
  /\ \A i, j \in 1..Len(batch) : i # j => batch[i].Index # batch[j].Index

\* the history of the entries handed to an open store
Stored(batch) ==
  IF handle = "open"
    THEN /\ pure' = (pure /\ FreshBatch(batch))
         /\ expect' = IF pure /\ FreshBatch(batch)
                        THEN [i \in DOMAIN expect \cup {batch[x].Index : x \in 1..Len(batch)} |->
                                IF i \in DOMAIN expect THEN expect[i]
                                ELSE batch[CHOOSE x \in 1..Len(batch) : batch[x].Index = i]]
                        ELSE EmptyTable
    ELSE UNCHANGED <<pure, expect>>

\* the history of the values handed to an open store
WasSet(k, rec) ==
  lastSet' = IF handle = "open" THEN [lastSet EXCEPT ![k] = rec] ELSE lastSet

FirstIndex(eng) ==
  LET r == FirstIndexOp(DB, eng)
  IN /\ Returns(r.db, [NoCall EXCEPT !.op = "FirstIndex", !.ret = r.idx, !.err = r.err, !.tx = r.tx])
     /\ UNCHANGED <<pure, expect, lastSet>>

LastIndex(eng) ==
  LET r == LastIndexOp(DB, eng)
  IN /\ Returns(r.db, [NoCall EXCEPT !.op = "LastIndex", !.ret = r.idx, !.err = r.err, !.tx = r.tx])
     /\ UNCHANGED <<pure, expect, lastSet>>

GetLog(idx, eng) ==
  LET r == GetLogOp(DB, idx, eng)
  IN /\ Returns(r.db, [NoCall EXCEPT !.op = "GetLog", !.idx = idx,
                                      !.log = r.log, !.err = r.err, !.tx = r.tx])
     /\ UNCHANGED <<pure, expect, lastSet>>

StoreLog(log, eng) ==
  LET r == StoreLogOp(DB, log, eng)
  IN /\ Returns(r.db, [NoCall EXCEPT !.op = "StoreLog", !.batch = <<log>>, !.err = r.err, !.tx = r.tx])
     /\ Stored(<<log>>)
     /\ UNCHANGED lastSet

StoreLogs(batch, eng) ==
  LET r == StoreLogsOp(DB, batch, eng)
  IN /\ Returns(r.db, [NoCall EXCEPT !.op = "StoreLogs", !.batch = batch, !.err = r.err, !.tx = r.tx])
     /\ Stored(batch)
     /\ UNCHANGED lastSet

DeleteRange(min, max, eng) ==
  LET r == DeleteRangeOp(DB, min, max, eng)
  IN /\ Returns(r.db, [NoCall EXCEPT !.op = "DeleteRange", !.min = min, !.max = max,
                                      !.err = r.err, !.tx = r.tx])
     /\ pure' = (pure /\ handle # "open")
     /\ expect' = IF handle = "open" THEN EmptyTable ELSE expect
     /\ UNCHANGED lastSet

Set(k, v, eng) ==
  LET r == SetOp(DB, k, v, eng)
  IN /\ Returns(r.db, [NoCall EXCEPT !.op = "Set", !.key = k, !.val = v, !.err = r.err, !.tx = r.tx])
     /\ WasSet(k, [kind |-> "bytes", bytes |-> v, n |-> 0])
     /\ UNCHANGED <<pure, expect>>

Get(k, eng) ==
  LET r == GetOp(DB, k, eng)
  IN /\ Returns(r.db, [NoCall EXCEPT !.op = "Get", !.key = k,
                                      !.value = r.value, !.err = r.err, !.tx = r.tx])
     /\ UNCHANGED <<pure, expect, lastSet>>

SetUint64(key, val, eng) ==
  LET r == SetUint64Op(DB, key, val, eng)
  IN /\ Returns(r.db, [NoCall EXCEPT !.op = "SetUint64", !.key = key, !.n = val,
                                      !.err = r.err, !.tx = r.tx])
     /\ WasSet(key, [kind |-> "uint64", bytes |-> NoBytes, n |-> val])
     /\ UNCHANGED <<pure, expect>>

GetUint64(key, eng) ==
  LET r == GetUint64Op(DB, key, eng)
  IN /\ Returns(r.db, [NoCall EXCEPT !.op = "GetUint64", !.key = key,
                                      !.ret = r.n, !.err = r.err, !.tx = r.tx])
     /\ UNCHANGED <<pure, expect, lastSet>>

\* CreateTableIfNotExists recreating the table (DROP TABLE, CREATE TABLE)
CreateTable_Dropping(exists, tbl) == EmptyTable

\* CREATE TABLE IF NOT EXISTS: the table as it is, or an empty one
CreateTableIfNotExists(exists, tbl) == IF exists THEN tbl ELSE EmptyTable

\* the initialization closure of NewStore: db.Exec runs each statement on the
\* database handle, not on the transaction, so what a statement did stays
\* whatever becomes of the transaction. failAt is the statement that fails
\* (0: none); sch and db are the file's schema and tables before the call
InitBody(sch, db, failAt) ==
  LET done == IF failAt = 0 THEN Len(InitSteps) ELSE failAt - 1
      ran == {InitSteps[i] : i \in 1..done}
  IN [schema |-> sch \cup ran,
      db |-> [logs |-> IF InitSteps[3] \in ran
                         THEN CreateTableIfNotExists(InitSteps[3] \in sch, db.logs)
                         ELSE db.logs,
              kv |-> IF InitSteps[4] \in ran
                       THEN CreateTableIfNotExists(InitSteps[4] \in sch, db.kv)
                       ELSE db.kv],
      err |-> IF failAt = 0 THEN Nil ELSE ErrExec]

\* NewStore: [schema, db, err, tx]; the store is returned when err is nil
NewStoreOp(sch, db, failAt, eng) ==
  LET body == InitBody(sch, db, failAt)
      t == transaction(db, [tx |-> db, err |-> body.err], eng)
  IN IF ~eng.begin
       THEN [schema |-> sch, db |-> db, err |-> t.err, tx |-> t.tx]
       ELSE [schema |-> body.schema, db |-> body.db, err |-> t.err, tx |-> t.tx]

\* NewStore(path): on a path never used (fresh) or on the path of the store
\* that was closed
NewStore(fresh, failAt, eng) ==
  LET sch == IF fresh THEN {} ELSE schema
      db == IF fresh THEN [logs |-> EmptyTable, kv |-> EmptyTable] ELSE DB
      r == NewStoreOp(sch, db, failAt, eng)
  IN /\ handle # "open"
     /\ logs' = r.db.logs
     /\ kv' = r.db.kv
     /\ schema' = r.schema
     /\ handle' = IF r.err = Nil THEN "open" ELSE "none"
     /\ last' = [NoCall EXCEPT !.op = "NewStore", !.fresh = fresh, !.failAt = failAt, !.sch = sch,
                               !.err = r.err, !.tx = r.tx]
     /\ prev' = db
     /\ pure' = IF fresh THEN TRUE ELSE pure
     /\ expect' = IF fresh THEN EmptyTable ELSE expect
     /\ lastSet' = IF fresh THEN [k \in Keys |-> NeverSet] ELSE lastSet
     /\ UNCHANGED <<procs, wlock, seen>>

\* Close
Close ==
  /\ handle = "open"
  /\ handle' = "closed"
  /\ last' = [NoCall EXCEPT !.op = "Close"]
  /\ prev' = DB
  /\ UNCHANGED <<logs, kv, schema, pure, expect, lastSet, procs, wlock, seen>>

Batches == UNION {[1..n -> Logs] : n \in 0..MaxBatch}

\* the log store's operations, on an open store
NextLog ==
  \/ \E eng \in EngineUp : FirstIndex(eng)
  \/ \E eng \in EngineUp : LastIndex(eng)
  \/ \E idx \in Indices, eng \in EngineUp : GetLog(idx, eng)
  \/ \E log \in Logs, eng \in EngineUp : StoreLog(log, eng)
  \/ \E batch \in Batches, eng \in EngineUp : StoreLogs(batch, eng)
  \/ \E min \in Indices, max \in Indices, eng \in EngineUp : DeleteRange(min, max, eng)

\* the stable store's operations, on an open store
NextKV ==
  \/ \E k \in Keys, v \in RawValues, eng \in EngineUp : Set(k, v, eng)
  \/ \E k \in Keys, eng \in EngineUp : Get(k, eng)
  \/ \E k \in Keys, n \in Uints, eng \in EngineUp : SetUint64(k, n, eng)
  \/ \E k \in Keys, eng \in EngineUp : GetUint64(k, eng)

Next == NextLog \/ NextKV

\* inputs of the specifications that follow a store through Close and
\* NewStore, and through engine failures
FewLogs == {l \in Logs : l.Index < MaxIndex /\ l.Data # BadData}
FewBatches == {<<>>} \cup [1..MaxBatch -> FewLogs]
FewIndices == {l.Index : l \in FewLogs}
FewUints == {123}

\* the engine fails at most one of Begin, Commit and Rollback
OneFault ==
  {e \in Engine : Cardinality({f \in {"b", "c", "r"} :
                      \/ f = "b" /\ ~e.begin
                      \/ f = "c" /\ ~e.commit
                      \/ f = "r" /\ ~e.rollback}) <= 1}

\* what the engine answers to a call on the caller's store
EngineOf == IF handle = "open" THEN {Healthy} ELSE EngineClosed

\* every public operation, on a store that is open or was closed
CallAny(engines) ==
  \/ \E eng \in engines : FirstIndex(eng)
  \/ \E eng \in engines : LastIndex(eng)
  \/ \E idx \in FewIndices, eng \in engines : GetLog(idx, eng)
  \/ \E log \in FewLogs, eng \in engines : StoreLog(log, eng)
  \/ \E batch \in FewBatches, eng \in engines : StoreLogs(batch, eng)
  \/ \E min \in FewIndices, max \in FewIndices, eng \in engines : DeleteRange(min, max, eng)
  \/ \E k \in Keys, v \in RawValues, eng \in engines : Set(k, v, eng)
  \/ \E k \in Keys, eng \in engines : Get(k, eng)
  \/ \E k \in Keys, n \in FewUints, eng \in engines : SetUint64(k, n, eng)
  \/ \E k \in Keys, eng \in engines : GetUint64(k, eng)

\* a store through its life: used, closed, used after Close, opened again
NextLife ==
  \/ handle # "none" /\ CallAny(EngineOf)
  \/ Close
  \/ \E fresh \in BOOLEAN, failAt \in 0..Len(InitSteps), eng \in OneFault :
       NewStore(fresh, failAt, eng)

SpecLife == Init /\ [][NextLife]_vars

\* inputs of the specification with engine failures: entries that encode and
\* entries that do not, one key
FaultLogs == {l \in Logs : l.Index < MaxIndex /\ l.Data # "log2"}
FaultBatches == [1..MaxBatch -> FaultLogs]
FaultKeys == {"key1"}

\* every public operation on an open store whose Begin, Commit or Rollback
\* may fail
NextFault ==
  \/ \E eng \in OneFault : FirstIndex(eng)
  \/ \E eng \in OneFault : LastIndex(eng)
  \/ \E idx \in FewIndices, eng \in OneFault : GetLog(idx, eng)
  \/ \E log \in FaultLogs, eng \in OneFault : StoreLog(log, eng)
  \/ \E batch \in FaultBatches, eng \in OneFault : StoreLogs(batch, eng)
  \/ \E min \in FewIndices, max \in FewIndices, eng \in OneFault : DeleteRange(min, max, eng)
  \/ \E k \in FaultKeys, v \in RawValues, eng \in OneFault : Set(k, v, eng)
  \/ \E k \in FaultKeys, eng \in OneFault : Get(k, eng)
  \/ \E k \in FaultKeys, n \in FewUints, eng \in OneFault : SetUint64(k, n, eng)
  \/ \E k \in FaultKeys, eng \in OneFault : GetUint64(k, eng)

SpecFault == Init /\ [][NextFault]_vars

\* a store used as raft.LogStore and raft.StableStore
\* ---------------------------------------------- concurrent StoreLogs calls
\* the two goroutines store disjoint sets of indices
OwnIndices(w) == {i \in Indices : i % 2 = w % 2}

\* the batches of goroutine w: entries that encode, its own indices, each once
OwnBatches(w) ==
  {b \in Batches :
     /\ b # <<>>
     /\ \A x \in 1..Len(b) : b[x].Index \in OwnIndices(w) /\ b[x].Data # BadData
     /\ \A x, y \in 1..Len(b) : x # y => b[x].Index # b[y].Index}

ConcFrame == UNCHANGED <<kv, last, prev, pure, expect, lastSet, handle, schema>>

\* StoreLogs is called and transaction begins a (deferred) transaction: no
\* lock is taken yet
BeginStoreLogs(w, batch) ==
  /\ handle = "open"
  /\ procs[w].pc = "idle"
  /\ procs' = [procs EXCEPT ![w] = [Idle EXCEPT !.pc = "begun", !.batch = batch]]
  /\ UNCHANGED <<logs, wlock, seen>>
  /\ ConcFrame

\* one turn of the loop when no other transaction holds the write lock: the
\* entry is encoded and inserted into the transaction's view of the table
\* (the first write takes the lock); the INSERT's error is assigned and
\* never read
InsertStep(w) ==
  LET p == procs[w]
      log == p.batch[p.pos]
      enc == encodeMsgPack(log)
      view == IF p.wrote THEN p.tx ELSE logs
  IN /\ p.pc = "begun"
     /\ p.pos <= Len(p.batch)
     /\ wlock \in {0, w}
     /\ IF enc.err # Nil
          THEN /\ procs' = [procs EXCEPT ![w] = [p EXCEPT !.pc = "done", !.err = enc.err]]
               /\ wlock' = 0
          ELSE /\ procs' = [procs EXCEPT ![w] =
                               [p EXCEPT !.tx = InsertLog(view, log.Index, enc.bytes).tbl,
                                         !.wrote = TRUE, !.pos = p.pos + 1]]
               /\ wlock' = w
     /\ UNCHANGED <<logs, seen>>
     /\ ConcFrame

\* one turn of the loop while the other transaction holds the write lock and
\* the engine gives up waiting for it: tx.Exec returns "database is locked",
\* the error is assigned and never read, the loop goes on
InsertLocked(w) ==
  LET p == procs[w]
  IN /\ p.pc = "begun"
     /\ p.pos <= Len(p.batch)
     /\ wlock \notin {0, w}
     /\ procs' = [procs EXCEPT ![w] = [p EXCEPT !.pos = p.pos + 1]]
     /\ UNCHANGED <<logs, wlock, seen>>
     /\ ConcFrame

\* the loop is over, the closure returns nil, transaction commits what the
\* transaction wrote and StoreLogs returns nil
CommitStoreLogs(w) ==
  LET p == procs[w]
  IN /\ p.pc = "begun"
     /\ p.pos > Len(p.batch)
     /\ logs' = IF p.wrote THEN p.tx ELSE logs
     /\ wlock' = IF wlock = w THEN 0 ELSE wlock
     /\ procs' = [procs EXCEPT ![w] = [p EXCEPT !.pc = "done", !.err = Nil]]
     /\ UNCHANGED seen
     /\ ConcFrame

\* a reader calls GetLog for every index: it finds what is committed
Observe ==
  /\ handle = "open"
  /\ seen' = {i \in Indices : GetLogOp(DB, i, Healthy).err = Nil}
  /\ UNCHANGED <<logs, procs, wlock>>
  /\ ConcFrame

\* two goroutines, one StoreLogs call each, and a reader
NextConc ==
  \/ \E w \in Writers : \E batch \in OwnBatches(w) : BeginStoreLogs(w, batch)
  \/ \E w \in Writers : InsertStep(w)
  \/ \E w \in Writers : InsertLocked(w)
  \/ \E w \in Writers : CommitStoreLogs(w)
  \/ Observe

SpecConc == Init /\ [][NextConc]_vars

Spec == Init /\ [][Next]_vars
\* a store used as raft.LogStore only
SpecLog == Init /\ [][NextLog]_vars
\* a store used as raft.StableStore only
SpecKV == Init /\ [][NextKV]_vars

\* ---------------------------------------------------------------- claims
StoreCall == last.op \in {"StoreLog", "StoreLogs"}
BatchIdx == 1..Len(last.batch)
InRange(i) == last.min <= i /\ i <= last.max

\* C1: StoreLogs is all-or-nothing: when the call has returned, either every
\* entry of the batch is the entry GetLog returns at its index, or the log is
\* as it was before the call (no entry of the batch was added).
C1_AllOrNothing ==
  StoreCall =>
    \/ \A x \in BatchIdx :
         LET g == GetLogOp(DB, last.batch[x].Index, Healthy)
         IN g.err = Nil /\ g.log = last.batch[x]
    \/ logs = prev.logs

\* C2: StoreLog/StoreLogs of an entry whose index is already in the log
\* returns a non-nil error.
C2_DuplicateIndexFails ==
  (StoreCall /\ \E x \in BatchIdx : last.batch[x].Index \in DOMAIN prev.logs)
    => last.err # Nil

\* C3: while StoreLog/StoreLogs were only called with (encodable) entries of
\* pairwise distinct indices, each call returns nil and GetLog(i) returns, for
\* every index i handed to the store, exactly the entry stored at i.
C3_StoreGetRoundTrip ==
  pure =>
    /\ StoreCall => last.err = Nil
    /\ \A i \in DOMAIN expect :
         LET g == GetLogOp(DB, i, Healthy)
         IN g.err = Nil /\ g.log = expect[i] /\ g.log.Index = i
    /\ (last.op = "GetLog" /\ last.idx \in DOMAIN expect)
         => (last.err = Nil /\ last.log = expect[last.idx])

\* C3 witness: a two-entry batch was stored after an earlier store, all with
\* distinct indices.
C3_Witness ==
  /\ pure
  /\ last.op = "StoreLogs"
  /\ Len(last.batch) = 2
  /\ last.batch[1].Data # last.batch[2].Data
  /\ Cardinality(DOMAIN expect) = 3
  /\ last.err = Nil

\* C4: GetLog(i) returns ErrLogNotFound, and nothing else, whenever no entry
\* with index i is stored: on an empty log, beside other indices, and after
\* i was removed by DeleteRange.
C4_GetLogNotFound ==
  /\ (last.op = "GetLog" /\ last.idx \notin DOMAIN logs) => last.err = ErrLogNotFound
  /\ \A i \in Indices \ DOMAIN logs : \A eng \in EngineUp :
       GetLogOp(DB, i, eng).err = ErrLogNotFound

\* C4 witness: GetLog of an absent index, beside stored ones, answered
\* ErrLogNotFound.
C4_Witness ==
  /\ last.op = "GetLog"
  /\ last.idx \notin DOMAIN logs
  /\ DOMAIN logs # {}
  /\ last.err = ErrLogNotFound

\* C5: FirstIndex returns the smallest stored index with a nil error, and 0
\* with a nil error when the log is empty.
C5_FirstIndex ==
  last.op = "FirstIndex" =>
    /\ last.err = Nil
    /\ IF DOMAIN logs = {}
         THEN last.ret = 0
         ELSE last.ret \in DOMAIN logs /\ \A j \in DOMAIN logs : last.ret <= j

\* C5 witness: FirstIndex on a log of several entries whose smallest index is
\* not 0.
C5_Witness ==
  /\ last.op = "FirstIndex"
  /\ Cardinality(DOMAIN logs) >= 2
  /\ last.ret > 0
  /\ last.err = Nil

\* C6: on a non-empty log LastIndex returns the largest stored index with a
\* nil error.
C6_LastIndex ==
  (last.op = "LastIndex" /\ DOMAIN logs # {}) =>
    /\ last.err = Nil
    /\ last.ret \in DOMAIN logs
    /\ \A j \in DOMAIN logs : last.ret >= j

\* C6 witness: LastIndex on a log of several entries whose largest index is
\* not the largest index there is.
C6_Witness ==
  /\ last.op = "LastIndex"
  /\ Cardinality(DOMAIN logs) >= 2
  /\ last.ret < MaxIndex
  /\ last.err = Nil

\* C7: on an empty log LastIndex returns a non-nil error, the engine's
\* no-rows condition, where FirstIndex returns 0 with a nil error.
C7_LastIndexEmpty ==
  DOMAIN logs = {} =>
    /\ last.op = "LastIndex" => (last.err # Nil /\ Is(last.err, ErrNoRows))
    /\ last.op = "FirstIndex" => (last.err = Nil /\ last.ret = 0)
    /\ \A eng \in EngineUp :
         /\ LastIndexOp(DB, eng).err # Nil
         /\ Is(LastIndexOp(DB, eng).err, ErrNoRows)
         /\ FirstIndexOp(DB, eng).err = Nil
         /\ FirstIndexOp(DB, eng).idx = 0

\* C7 witness: LastIndex on an empty log returned the no-rows error, joined
\* with the error of a rollback that failed too.
C7_Witness ==
  /\ last.op = "LastIndex"
  /\ DOMAIN logs = {}
  /\ Is(last.err, ErrNoRows)
  /\ Is(last.err, ErrRollback)

\* C8: DeleteRange(min, max) removes exactly the entries with
\* min <= index <= max: afterwards GetLog fails with ErrLogNotFound at every
\* such index, and every other index answers GetLog as before the call.
C8_DeleteRange ==
  last.op = "DeleteRange" =>
    /\ last.err = Nil
    /\ \A i \in Indices :
         LET g == GetLogOp(DB, i, Healthy)
             p == GetLogOp(prev, i, Healthy)
         IN IF InRange(i)
              THEN g.err = ErrLogNotFound
              ELSE /\ g.err = p.err
                   /\ g.log = p.log
                   /\ i \in DOMAIN prev.logs => (g.err = Nil /\ g.log.Index = i)

\* C8 witness: a DeleteRange with min < max that removed an entry at max and
\* kept an entry outside the range.
C8_Witness ==
  /\ last.op = "DeleteRange"
  /\ last.min < last.max
  /\ last.max \in DOMAIN prev.logs
  /\ \E j \in DOMAIN logs : ~InRange(j)

\* C9: Set is an upsert, last write wins: Get(k) returns the value of the
\* most recent Set on k and GetUint64(k) the value of the most recent
\* SetUint64 on k; a Set returns nil and leaves the other keys as they were.
C9_SetLastWriteWins ==
  /\ last.op \in {"Set", "SetUint64"} =>
       /\ last.err = Nil
       /\ \A k \in Keys \ {last.key} :
            /\ k \in DOMAIN kv <=> k \in DOMAIN prev.kv
            /\ k \in DOMAIN kv => kv[k] = prev.kv[k]
  /\ \A k \in Keys :
       /\ lastSet[k].kind = "bytes" =>
            LET g == GetOp(DB, k, Healthy)
            IN g.err = Nil /\ g.value = lastSet[k].bytes
       /\ lastSet[k].kind = "uint64" =>
            LET g == GetUint64Op(DB, k, Healthy)
            IN g.err = Nil /\ g.n = lastSet[k].n
  /\ (last.op = "Get" /\ lastSet[last.key].kind = "bytes") =>
       (last.err = Nil /\ last.value = lastSet[last.key].bytes)
  /\ (last.op = "GetUint64" /\ lastSet[last.key].kind = "uint64") =>
       (last.err = Nil /\ last.ret = lastSet[last.key].n)

\* C9 witness: a Set replaced a different value of a key, beside another key.
C9_Witness ==
  /\ last.op \in {"Set", "SetUint64"}
  /\ last.key \in DOMAIN prev.kv
  /\ prev.kv[last.key] # kv[last.key]
  /\ \E k \in DOMAIN kv : k # last.key

\* C10: Get(k) and GetUint64(k) return ErrKeyNotFound whenever k has never
\* been set, whatever other keys are present.
C10_KeyNotFound ==
  /\ (last.op \in {"Get", "GetUint64"} /\ lastSet[last.key].kind = "none")
       => last.err = ErrKeyNotFound
  /\ \A k \in Keys : lastSet[k].kind = "none" =>
       \A eng \in EngineUp :
         /\ GetOp(DB, k, eng).err = ErrKeyNotFound
         /\ GetUint64Op(DB, k, eng).err = ErrKeyNotFound

\* C10 witness: GetUint64 of a key never set, beside a key that is set.
C10_Witness ==
  /\ last.op = "GetUint64"
  /\ lastSet[last.key].kind = "none"
  /\ DOMAIN kv # {}
  /\ last.err = ErrKeyNotFound

DataOps ==
  {"FirstIndex", "LastIndex", "GetLog", "StoreLog", "StoreLogs", "DeleteRange",
   "Set", "Get", "SetUint64", "GetUint64"}

\* every public operation fails on db and leaves it as it is
AllFail(db, eng) ==
  /\ FirstIndexOp(db, eng).err # Nil /\ FirstIndexOp(db, eng).db = db
  /\ LastIndexOp(db, eng).err # Nil /\ LastIndexOp(db, eng).db = db
  /\ \A i \in Indices : GetLogOp(db, i, eng).err # Nil /\ GetLogOp(db, i, eng).db = db
  /\ \A l \in FewLogs : StoreLogOp(db, l, eng).err # Nil /\ StoreLogOp(db, l, eng).db = db
  /\ \A b \in FewBatches : StoreLogsOp(db, b, eng).err # Nil /\ StoreLogsOp(db, b, eng).db = db
  /\ \A i, j \in Indices :
       DeleteRangeOp(db, i, j, eng).err # Nil /\ DeleteRangeOp(db, i, j, eng).db = db
  /\ \A k \in Keys :
       /\ GetOp(db, k, eng).err # Nil /\ GetOp(db, k, eng).db = db
       /\ GetUint64Op(db, k, eng).err # Nil /\ GetUint64Op(db, k, eng).db = db
       /\ \A v \in RawValues : SetOp(db, k, v, eng).err # Nil /\ SetOp(db, k, v, eng).db = db
       /\ \A n \in Uints :
            SetUint64Op(db, k, n, eng).err # Nil /\ SetUint64Op(db, k, n, eng).db = db

\* C11: after Close every operation returns a non-nil error (it returns: no
\* transaction was begun) and changes neither table.
C11_ClosedFails ==
  handle = "closed" =>
    /\ last.op \in DataOps =>
         /\ last.err # Nil
         /\ ~last.tx.begun
         /\ logs = prev.logs
         /\ kv = prev.kv
    /\ \A eng \in EngineClosed : AllFail(DB, eng)

\* C11 witness: StoreLogs of a full batch on a closed store that holds entries
\* and values failed.
C11_Witness ==
  /\ handle = "closed"
  /\ last.op = "StoreLogs"
  /\ Len(last.batch) = MaxBatch
  /\ DOMAIN logs # {}
  /\ DOMAIN kv # {}
  /\ last.err # Nil

\* C12: closing a store and opening a store at the same path preserves every
\* log entry and every value committed before the close: neither a call on the
\* closed store nor NewStore's initialization drops or alters a row, and the
\* reopened store answers GetLog and Get with what was stored.
C12_ReopenPreserves ==
  /\ (last.op = "NewStore" /\ ~last.fresh) => (logs = prev.logs /\ kv = prev.kv)
  /\ handle # "open" => (logs = prev.logs /\ kv = prev.kv)
  /\ handle = "open" =>
       /\ pure => \A i \in DOMAIN expect :
                    LET g == GetLogOp(DB, i, Healthy)
                    IN g.err = Nil /\ g.log = expect[i]
       /\ \A k \in Keys : lastSet[k].kind = "bytes" =>
            LET g == GetOp(DB, k, Healthy)
            IN g.err = Nil /\ g.value = lastSet[k].bytes
       /\ \A k \in Keys : lastSet[k].kind = "uint64" =>
            LET g == GetUint64Op(DB, k, Healthy)
            IN g.err = Nil /\ g.n = lastSet[k].n

\* C12 witness: a store holding two entries and two values was opened again
\* at its path.
C12_Witness ==
  /\ last.op = "NewStore"
  /\ ~last.fresh
  /\ last.err = Nil
  /\ handle = "open"
  /\ pure
  /\ Cardinality(DOMAIN expect) = 2
  /\ \A k \in Keys : lastSet[k].kind # "none"

\* C17: NewStore's initialization is one atomic transaction: when NewStore
\* returns an error none of its statements has taken effect, and when it
\* returns a store all of them have.
C17_InitAtomic ==
  last.op = "NewStore" =>
    IF last.err # Nil THEN schema = last.sch ELSE schema = AllSteps

\* C15: every operation finishes the transaction it began on every exit path
\* (commit or rollback was called before it returned, whatever they answered),
\* commits only when its body returned no error, and without a successful
\* commit leaves both tables as they were.
C15_TxFinished ==
  last.op \in DataOps =>
    /\ last.tx.begun => last.tx.end \in {"commit", "rollback"}
    /\ ~last.tx.begun => (last.tx.end = "none" /\ last.err = ErrBegin)
    /\ last.tx.end = "commit" <=> (last.tx.begun /\ last.tx.body = Nil)
    /\ (logs # prev.logs \/ kv # prev.kv) => (last.tx.end = "commit" /\ last.tx.ok)

\* C15 witness: a StoreLogs whose second entry did not encode was rolled back
\* and the rollback failed.
C15_Witness ==
  /\ last.op = "StoreLogs"
  /\ Len(last.batch) = 2
  /\ last.tx.begun
  /\ last.tx.end = "rollback"
  /\ ~last.tx.ok
  /\ Is(last.tx.body, ErrEncode)

\* what an operation returns for the error of its transaction when the
\* rollback succeeded: the not-found mappings of FirstIndex, GetLog and Get
Surfaced(op, err) ==
  IF ~Is(err, ErrNoRows) THEN err
  ELSE IF op = "FirstIndex" THEN Nil
  ELSE IF op = "GetLog" THEN ErrLogNotFound
  ELSE IF op \in {"Get", "GetUint64"} THEN ErrKeyNotFound
  ELSE err

\* C16: when an operation's body fails and the rollback fails too, the error
\* the operation returns is not nil and carries the original error and the
\* rollback error; when the rollback succeeds the operation returns the
\* original error (as its not-found result where the operation has one).
C16_RollbackErrors ==
  (last.op \in DataOps /\ last.tx.end = "rollback") =>
    IF last.tx.ok
      THEN last.err = Surfaced(last.op, last.tx.body)
      ELSE /\ last.err # Nil
           /\ Is(last.err, ErrRollback)
           /\ Is(last.err, last.tx.body)

\* C18: a stored entry is never changed in place and disappears only through
\* DeleteRange: whatever was called, every entry stored before the call is
\* still returned by GetLog as it was, unless the call was a DeleteRange
\* covering its index.
C18_NeverMutated ==
  \A i \in DOMAIN prev.logs :
    \/ last.op = "DeleteRange" /\ InRange(i)
    \/ /\ i \in DOMAIN logs
       /\ logs[i] = prev.logs[i]
       /\ GetLogOp(DB, i, Healthy).err = Nil
       /\ GetLogOp(DB, i, Healthy).log = GetLogOp(prev, i, Healthy).log

\* C18 witness: a StoreLogs call handed the store an index it already held,
\* with other data, and returned nil.
C18_Witness ==
  /\ last.op = "StoreLogs"
  /\ last.err = Nil
  /\ \E x \in BatchIdx :
       /\ last.batch[x].Index \in DOMAIN prev.logs
       /\ GetLogOp(prev, last.batch[x].Index, Healthy).log.Data # last.batch[x].Data

\* C19 as stated: FirstIndex returns (0, nil) if and only if no entry is stored.
C19_ZeroIffEmpty ==
  LET r == FirstIndexOp(DB, Healthy)
  IN (r.idx = 0 /\ r.err = Nil) <=> (DOMAIN logs = {})

\* C19 amended: FirstIndex returns (0, nil) if and only if no entry is stored
\* or the smallest stored index is 0; on a healthy store it never fails.
C19_ZeroIffEmptyOrIndexZero ==
  LET r == FirstIndexOp(DB, Healthy)
  IN /\ r.err = Nil
     /\ (r.idx = 0) <=> (DOMAIN logs = {} \/ 0 \in DOMAIN logs)
     /\ last.op = "FirstIndex" =>
          (last.err = Nil /\ ((last.ret = 0) <=> (DOMAIN logs = {} \/ 0 \in DOMAIN logs)))

\* C19 witness: FirstIndex returned (0, nil) on a log that holds index 0.
C19_Witness ==
  /\ last.op = "FirstIndex"
  /\ last.ret = 0
  /\ last.err = Nil
  /\ 0 \in DOMAIN logs

\* C20: the reads leave both tables as they were, the log operations leave
\* the kv table as it was, and Set and SetUint64 leave the log as it was.
C20_Frame ==
  /\ last.op \in {"FirstIndex", "LastIndex", "GetLog", "Get", "GetUint64"} =>
       (logs = prev.logs /\ kv = prev.kv)
  /\ last.op \in {"StoreLog", "StoreLogs", "DeleteRange"} => kv = prev.kv
  /\ last.op \in {"Set", "SetUint64"} => logs = prev.logs

\* C20 witness: a DeleteRange removed entries from a store that holds a value
\* for every key.
C20_Witness ==
  /\ last.op = "DeleteRange"
  /\ last.err = Nil
  /\ logs # prev.logs
  /\ DOMAIN kv = Keys

\* the indices of a batch
IdxOf(batch) == {batch[x].Index : x \in 1..Len(batch)}

\* C13: two concurrent StoreLogs calls with disjoint indices both return nil,
\* and when a call has returned nil every entry of its batch is returned by
\* GetLog (no write is lost).
C13_NoLostWrites ==
  \A w \in Writers :
    procs[w].pc = "done" =>
      /\ procs[w].err = Nil
      /\ \A x \in 1..Len(procs[w].batch) :
           LET g == GetLogOp(DB, procs[w].batch[x].Index, Healthy)
           IN g.err = Nil /\ g.log = procs[w].batch[x]

\* C14: a reader running beside a StoreLogs call of several entries finds
\* none or all of the batch's entries.
C14_AllOrNothingVisible ==
  \A w \in Writers :
    (procs[w].pc # "idle" /\ Len(procs[w].batch) >= 2) =>
      LET found == seen \cap IdxOf(procs[w].batch)
      IN found = {} \/ found = IdxOf(procs[w].batch)

====
